---- MODULE Spec2Model ----
(***************************************************************************)
(* Model of the QEMU machine backend (pkg/machine/qemu.go): launch         *)
(* argument synthesis in Create, the monitor-socket commands Screenshot    *)
(* and DetachCD, and the Stop / Clean / Alive lifecycle operations.        *)
(*                                                                         *)
(* Go strings are modelled as sequences of string pieces, so that          *)
(* fmt.Sprintf and filepath.Join are concatenations and "" is << >>.       *)
(* A launch argument that Create formats from several values is a record   *)
(* holding those values; a literal argument is a record holding its text.  *)
(***************************************************************************)
EXTENDS Integers, Sequences, FiniteSets, TLC

VARIABLES
    cfg,              \* q.machineConfig (read-only after construction)
    dirExists,        \* the configured state directory exists on disk
    images,           \* disk images in the state directory: [path, size]
    sock,             \* the monitor socket file exists
    pidfile,          \* the process manager's pid record for the state dir
    procAlive,        \* the hypervisor OS process is running
    qproc,            \* q.process: the handle built by Create
    monitorAttached,  \* monitor(ctx, qemu, OnFailure) has been called
    ret,              \* what the last finished call returned
    pc,               \* "idle", or "drain" while a monitor call reads
    call,             \* the monitor call in progress
    connOpen,         \* number of monitor connections currently open
    avail,            \* the peer has sent data that was not read yet
    peerClosed,       \* the peer closed the connection
    expired,          \* the read deadline of the connection has passed
    reads,            \* successful reads of the current drain (saturating)
    sent,             \* the last command line written whole to the monitor
    inp               \* the last step: a call and what the environment gave
                      \* it, or a step of the environment

vars == <<cfg, dirExists, images, sock, pidfile, procAlive, qproc,
          monitorAttached, ret, pc, call, connOpen, avail, peerClosed,
          expired, reads, sent, inp>>

fsVars   == <<dirExists, images, sock, pidfile>>
chanVars == <<pc, call, connOpen, avail, peerClosed, expired, reads, sent>>

----------------------------------------------------------------------------
(* Bounds of the model *)

MaxShort  == 2     \* every list of at most this many drive paths is tried
MaxDrives == 51    \* longer drive lists (one per length) go up to this
MaxSizes  == 2     \* configured drive sizes
MaxReads  == 2     \* the count of successful drain reads saturates here

----------------------------------------------------------------------------
(* Strings *)

nil     == << >>

IsPrefix(p, s) == Len(p) <= Len(s) /\ SubSeq(s, 1, Len(p)) = p

\* filepath.Join / path.Join of a directory and a file name: empty
\* elements are ignored.
PathJoin(dir, name) ==
    IF dir = << >> THEN name
    ELSE IF name = << >> THEN dir
    ELSE dir \o <<"/">> \o name

\* A literal launch argument holding the Go string s, and one given by its text.
Lit(s)  == [t |-> "lit", s |-> s]
Flag(x) == Lit(<<x>>)

----------------------------------------------------------------------------
(* Program constants *)

ISOBootIndex        == 50
DataSourceBootIndex == 60
EjectCmdLen         == 19   \* len("eject -f ide0-cd0\r\n")
ScreendumpVerbLen   == 11   \* len("screendump ")
CRLFLen             == 2    \* len("\r\n")
TmpNameFixedLen     == 25   \* len("/tmp/qemu-screenshot-") + len(".png")

\* types.DefaultDriveSize: the size used when no drive size is configured.
DefaultDriveSize == <<"DefaultDriveSize">>

\* commonPaths of findQEMUBinary, in search order.
commonPaths == <<
    <<"/home/linuxbrew/.linuxbrew/bin">>,
    <<"/usr/local/bin">>,
    <<"/usr/bin">>,
    <<"/opt/homebrew/bin">>,
    <<"/usr/local/homebrew/bin">> >>

----------------------------------------------------------------------------
(* Create: disk provisioning *)

\* driveSizes(): every configured size gets the unit suffix of qemu-img;
\* the default size is used when none is configured.
RECURSIVE SizesWithUnit(_)
SizesWithUnit(ss) ==
    IF ss = << >> THEN << >>
    ELSE <<Head(ss) \o <<"M">>>> \o SizesWithUnit(Tail(ss))

driveSizes(m) ==
    LET sizes == SizesWithUnit(m.DriveSizes)
    IN  IF Len(sizes) = 0 THEN <<DefaultDriveSize \o <<"M">>>> ELSE sizes

\* Mutant: the image names are numbered from 1.
DiskFilename_OneBased(id, i) == id \o <<"-", ToString(i + 1), ".img">>

\* fmt.Sprintf("%s-%d.img", ID, i) for the 0-based loop index i.
DiskFilename(id, i) == id \o <<"-", ToString(i), ".img">>

\* CreateDisk(diskname, size) when the environment makes os.MkdirAll fail
\* (o = "mkdir"), makes qemu-img fail (o = "tool") or lets both succeed:
\* st is [dirExists, images, err].
CreateDisk(m, st, diskname, size, o) ==
    IF o = "mkdir"
    THEN [st EXCEPT !.err = <<"mkdir">>]
    ELSE IF o = "tool"
    THEN [st EXCEPT !.dirExists = TRUE, !.err = <<"qemu-img", " : ", "exit">>]
    ELSE LET p == PathJoin(m.StateDir, diskname)
         IN  [dirExists |-> TRUE,
              images    |-> {im \in st.images : im.path # p}
                              \cup {[path |-> p, size |-> size]},
              err       |-> nil]

\* The provisioning loop of Create over driveSizes, from 0-based index i:
\* ps is [fs, userDrives, err]; the loop returns at the first failure.
RECURSIVE ProvisionFrom(_, _, _, _, _)
ProvisionFrom(m, sizes, i, ps, outcome) ==
    IF i >= Len(sizes) THEN ps
    ELSE LET s        == sizes[i + 1]
             filename == DiskFilename(m.ID, i)
             fs2      == CreateDisk(m, ps.fs, filename, s, outcome[i + 1])
         IN  IF fs2.err # nil
             THEN [ps EXCEPT !.fs = fs2,
                     !.err = <<"creating disk with size ">> \o s \o <<": ">> \o fs2.err]
             ELSE ProvisionFrom(m, sizes, i + 1,
                     [fs         |-> fs2,
                      userDrives |-> Append(ps.userDrives, PathJoin(m.StateDir, filename)),
                      err        |-> nil],
                     outcome)

Provision(m, fs, outcome) ==
    LET ps0 == [fs |-> fs, userDrives |-> m.Drives, err |-> nil]
    IN  IF m.AutoDriveSetup /\ Len(m.Drives) = 0
        THEN ProvisionFrom(m, driveSizes(m), 0, ps0, outcome)
        ELSE ps0

\* How many disk creations Create can attempt on configuration m.
ProvisionCount(m) ==
    IF m.AutoDriveSetup /\ Len(m.Drives) = 0 THEN Len(driveSizes(m)) ELSE 0

----------------------------------------------------------------------------
(* Create: genDrives *)

DriveID(id) == <<"drv", ToString(id)>>

\* Mutant: the loop index is used as the bootindex unchanged.
UserDrive_IndexAsBootindex(gs, i, d) ==
    [gs EXCEPT
       !.allDrives = @ \o <<
           Flag("-drive"),
           [t |-> "drive", id |-> DriveID(gs.id), media |-> "", file |-> d],
           Flag("-device"),
           [t |-> "virtio-blk-pci", drive |-> DriveID(gs.id), bootindex |-> i] >>,
       !.id = @ + 1]

\* One iteration of the user-disk loop, for the 0-based index i and path d.
UserDrive(gs, i, d) ==
    [gs EXCEPT
       !.allDrives = @ \o <<
           Flag("-drive"),
           [t |-> "drive", id |-> DriveID(gs.id), media |-> "", file |-> d],
           Flag("-device"),
           [t |-> "virtio-blk-pci", drive |-> DriveID(gs.id), bootindex |-> i + 1] >>,
       !.id = @ + 1]

RECURSIVE UserDrives(_, _, _)
UserDrives(gs, i, userDrives) ==
    IF i >= Len(userDrives) THEN gs
    ELSE UserDrives(UserDrive(gs, i, userDrives[i + 1]), i + 1, userDrives)

\* Mutant: the controller is added for every removable medium.
addSCSI_Always(gs) ==
    [gs EXCEPT
       !.allDrives = @ \o <<Flag("-device"),
                            [t |-> "virtio-scsi-pci", id |-> "scsi0"]>>,
       !.scsiAdded = TRUE]

addSCSIIfNeeded(gs) ==
    IF ~gs.scsiAdded
    THEN [gs EXCEPT
            !.allDrives = @ \o <<Flag("-device"),
                                 [t |-> "virtio-scsi-pci", id |-> "scsi0"]>>,
            !.scsiAdded = TRUE]
    ELSE gs

\* A removable medium: a cdrom drive and its scsi-cd device on bus scsi0.0.
CDROM(gs, file, bootindex) ==
    [gs EXCEPT
       !.allDrives = @ \o <<
           Flag("-drive"),
           [t |-> "drive", id |-> DriveID(gs.id), media |-> "cdrom", file |-> file],
           Flag("-device"),
           [t |-> "scsi-cd", drive |-> DriveID(gs.id), bus |-> "scsi0.0",
            bootindex |-> bootindex] >>,
       !.id = @ + 1]

genDrives(m, userDrives) ==
    LET g0 == [allDrives |-> << >>, scsiAdded |-> FALSE, id |-> 0]
        g1 == UserDrives(g0, 0, userDrives)
        g2 == IF m.ISO # << >>
              THEN CDROM(addSCSIIfNeeded(g1), m.ISO, ISOBootIndex) ELSE g1
        g3 == IF m.DataSource # << >>
              THEN CDROM(addSCSIIfNeeded(g2), m.DataSource, DataSourceBootIndex) ELSE g2
    IN  g3.allDrives

----------------------------------------------------------------------------
(* Create: binary resolution and the remaining launch arguments *)

\* findQEMUBinary(arch): the first common path that holds the binary, else
\* the PATH lookup; present is the set of indexes of commonPaths where
\* os.Stat succeeds and lookPath is what exec.LookPath finds (<< >>: none).
RECURSIVE FirstCommonPath(_, _, _)
FirstCommonPath(i, present, qemuBinary) ==
    IF i > Len(commonPaths) THEN << >>
    ELSE IF i \in present THEN PathJoin(commonPaths[i], qemuBinary)
    ELSE FirstCommonPath(i + 1, present, qemuBinary)

findQEMUBinary(arch, present, lookPath) ==
    LET qemuBinary == <<"qemu-system-">> \o arch
        common     == FirstCommonPath(1, present, qemuBinary)
    IN  IF common # << >> THEN [path |-> common, err |-> nil]
        ELSE IF lookPath = << >>
        THEN [path |-> << >>,
              err  |-> qemuBinary \o <<" not found in common paths or PATH: ">>
                                  \o <<"executable file not found in $PATH">>]
        ELSE [path |-> PathJoin(lookPath, qemuBinary), err |-> nil]

\* Mutant: an unresolved binary falls back to a fixed path.
ResolveProcess_Fallback(m, present, lookPath) ==
    IF m.Process # << >> THEN [path |-> m.Process, err |-> nil]
    ELSE LET r == findQEMUBinary(m.Arch, present, lookPath)
         IN  IF r.err # nil
             THEN [path |-> <<"/usr/bin/qemu-system-x86_64">>, err |-> nil]
             ELSE r

ResolveProcess(m, present, lookPath) ==
    IF m.Process # << >> THEN [path |-> m.Process, err |-> nil]
    ELSE LET r == findQEMUBinary(m.Arch, present, lookPath)
         IN  IF r.err # nil
             THEN [path |-> << >>, err |-> <<"failed to find QEMU binary: ">> \o r.err]
             ELSE r

monitorSockFile(m) == PathJoin(m.StateDir, <<"qemu-monitor.sock">>)

\* strings.Split(display, " "): the pieces between the " " separators.
RECURSIVE SplitSpace(_, _)
SplitSpace(s, cur) ==
    IF s = << >> THEN <<Lit(cur)>>
    ELSE IF Head(s) = " " THEN <<Lit(cur)>> \o SplitSpace(Tail(s), << >>)
    ELSE SplitSpace(Tail(s), cur \o <<Head(s)>>)

RECURSIVE LitAll(_)
LitAll(ss) == IF ss = << >> THEN << >> ELSE <<Lit(Head(ss))>> \o LitAll(Tail(ss))

BootOrder == <<Flag("-boot"), Flag("order=dc,menu=on")>>

opts(m) ==
    LET display == IF m.Display # << >> THEN m.Display ELSE <<"-nographic">>
        o1 == << Flag("-m"), Lit(m.Memory),
                 Flag("-smp"), [t |-> "cores", cores |-> m.CPU],
                 Flag("-rtc"), Flag("base=utc,clock=rt"),
                 Flag("-monitor"), [t |-> "unix", path |-> monitorSockFile(m)],
                 Flag("-device"), Flag("virtio-serial") >>
        o2 == IF ~m.DisableDefaultNetworking
              THEN o1 \o <<Flag("-nic"), [t |-> "hostfwd", port |-> m.SSHPort]>>
              ELSE o1
        o3 == o2 \o SplitSpace(display, << >>)
        o4 == IF m.CPUType # << >> THEN o3 \o <<Flag("-cpu"), Lit(m.CPUType)>>
              ELSE IF m.Arch = <<"aarch64">> THEN o3 \o <<Flag("-cpu"), Flag("max")>>
              ELSE o3
        o5 == o4 \o LitAll(m.Args)
        o6 == IF m.Arch = <<"aarch64">>
              THEN o5 \o <<Flag("-machine"), Flag("virt,accel=tcg,acpi=on,gic-version=2")>>
              ELSE o5
    IN  o6 \o BootOrder

\* Mutant: the drive arguments are handed over before the options.
LaunchArgs_DrivesFirst(m, userDrives) == genDrives(m, userDrives) \o opts(m)

\* process.New(WithName, WithArgs(opts...), WithArgs(genDrives...),
\* WithStateDir): the argument list of the process is the first WithArgs
\* list followed by the second.
LaunchArgs(m, userDrives) == opts(m) \o genDrives(m, userDrives)

NoProcess == [set |-> FALSE, name |-> << >>, args |-> << >>]

NoRet == [op |-> "none", err |-> nil, ctx |-> "none", name |-> << >>,
          alive |-> FALSE, calls |-> << >>]

NoCall == [op |-> "none", name |-> << >>]

NoSent == [verb |-> "none", arg |-> << >>]

----------------------------------------------------------------------------
(* Create *)

\* The outcomes the environment can give to the disk creations of one
\* Create: os.MkdirAll fails on an empty path, cannot fail on a directory
\* that exists, and the loop creates the directory with its first disk.
ProvisionOutcomes(m, dirEx) ==
    {o \in [1..ProvisionCount(m) -> {"ok", "mkdir", "tool"}] :
        \A i \in DOMAIN o :
            /\ (m.StateDir = << >>) => (o[i] = "mkdir")
            /\ (m.StateDir # << >> /\ (dirEx \/ i > 1)) => (o[i] # "mkdir")}

\* Create(ctx): the provisioning loop, the binary resolution, and the launch
\* with the failure monitor attached. The environment decides how each disk
\* creation ends, where the binary is, and whether qemu.Run() succeeds.
\* Run makes the state directory and writes the pid record into it; with
\* an empty StateDir there is no such directory, and whether the process
\* manager's record can be found again under the empty name is its choice
\* (pidRec).
CreateWith(outcome, present, lookPath, runOK, pidRec) ==
    LET m    == cfg
        ps   == Provision(m, [dirExists |-> dirExists, images |-> images, err |-> nil],
                          outcome)
        proc == ResolveProcess(m, present, lookPath)
    IN  IF ps.err # nil
        THEN /\ dirExists' = ps.fs.dirExists
             /\ images' = ps.fs.images
             /\ ret' = [NoRet EXCEPT !.op = "Create", !.err = ps.err, !.ctx = "ctx"]
             /\ UNCHANGED <<sock, pidfile, procAlive, qproc, monitorAttached>>
        ELSE IF proc.err # nil
        THEN /\ dirExists' = ps.fs.dirExists
             /\ images' = ps.fs.images
             /\ ret' = [NoRet EXCEPT !.op = "Create", !.err = proc.err, !.ctx = "ctx"]
             /\ UNCHANGED <<sock, pidfile, procAlive, qproc, monitorAttached>>
        ELSE /\ images' = ps.fs.images
             /\ qproc' = [set |-> TRUE, name |-> proc.path,
                          args |-> LaunchArgs(m, ps.userDrives)]
             /\ monitorAttached' = TRUE
             /\ IF runOK
                THEN /\ dirExists' = (m.StateDir # << >>)
                     /\ pidfile' = pidRec
                     /\ procAlive' = TRUE
                     /\ ret' = [NoRet EXCEPT !.op = "Create", !.ctx = "newCtx"]
                ELSE /\ dirExists' = ps.fs.dirExists
                     /\ UNCHANGED <<pidfile, procAlive>>
                     /\ ret' = [NoRet EXCEPT !.op = "Create", !.err = <<"run">>,
                                             !.ctx = "newCtx"]
             /\ UNCHANGED sock

LookPaths == {<< >>, <<"/opt/qemu/bin">>}

Create ==
    /\ pc = "idle"
    /\ ~procAlive
    /\ \E outcome \in ProvisionOutcomes(cfg, dirExists),
          present \in (IF cfg.Process = << >>
                       THEN SUBSET (1..Len(commonPaths)) ELSE {{}}),
          lookPath \in (IF cfg.Process = << >> THEN LookPaths ELSE {<< >>}),
          runOK \in BOOLEAN,
          pidRec \in (IF cfg.StateDir = << >> THEN BOOLEAN ELSE {TRUE}) :
            /\ CreateWith(outcome, present, lookPath, runOK, pidRec)
            /\ inp' = [op |-> "Create", outcome |-> outcome, present |-> present,
                       lookPath |-> lookPath, runOK |-> runOK]
    /\ UNCHANGED <<cfg, chanVars>>

----------------------------------------------------------------------------
(* Machine configurations *)

DrivePaths == {<<"a.img">>, <<"b.img">>}
SizeStrs   == {<<"10240">>, <<"512">>}

SeqsUpTo(S, n) == UNION {[1..k -> S] : k \in 0..n}

\* Every drive list of at most MaxShort paths, and one list of each greater
\* length up to MaxDrives (its paths alternate).
LongDrives(n) == [i \in 1..n |-> IF i % 2 = 1 THEN <<"a.img">> ELSE <<"b.img">>]

BaseConfig ==
    [ID |-> <<"vm">>, Memory |-> <<"2048">>, CPU |-> <<"2">>,
     CPUType |-> << >>, Arch |-> <<"x86_64">>,
     Drives |-> << >>, DriveSizes |-> << >>, AutoDriveSetup |-> FALSE,
     ISO |-> << >>, DataSource |-> << >>,
     DisableDefaultNetworking |-> FALSE, SSHPort |-> <<"2222">>,
     Display |-> << >>, Args |-> << >>,
     StateDir |-> <<"/state">>, Process |-> <<"/bin/qemu">>]

ISOs        == {<< >>, <<"install.iso">>}
DataSources == {<< >>, <<"datasource.iso">>}
StateDirs   == {<< >>, <<"/state">>}
Processes   == {<< >>, <<"/bin/qemu">>}
Archs       == {<<"x86_64">>, <<"aarch64">>}

\* Storage configurations: drives, media, auto-provisioning, state directory.
StorageConfigs ==
    {[BaseConfig EXCEPT !.Drives = d, !.ISO = iso, !.DataSource = ds,
                        !.AutoDriveSetup = auto, !.DriveSizes = sz, !.StateDir = sd] :
        d \in SeqsUpTo(DrivePaths, MaxShort), iso \in ISOs, ds \in DataSources,
        auto \in BOOLEAN, sz \in SeqsUpTo(SizeStrs, MaxSizes), sd \in StateDirs}
    \cup
    {[BaseConfig EXCEPT !.Drives = LongDrives(n), !.ISO = iso, !.DataSource = ds,
                        !.StateDir = sd] :
        n \in (MaxShort + 1)..MaxDrives, iso \in ISOs, ds \in DataSources,
        sd \in StateDirs}

\* Launch configurations: binary, architecture, display, CPU, extra arguments.
LaunchConfigs ==
    {[BaseConfig EXCEPT !.Process = p, !.Arch = a, !.Display = disp, !.CPUType = ct,
                        !.Args = ar, !.DisableDefaultNetworking = nn,
                        !.Drives = d, !.ISO = iso] :
        p \in Processes, a \in Archs,
        disp \in {<< >>, <<"-vga", " ", "qxl">>}, ct \in {<< >>, <<"host">>},
        ar \in {<< >>, <<<<"-snapshot">>>>}, nn \in BOOLEAN,
        d \in SeqsUpTo(DrivePaths, 1), iso \in ISOs}

SynthConfigs == StorageConfigs \cup LaunchConfigs

InitWith(configs) ==
    /\ cfg \in configs
    /\ dirExists \in (IF cfg.StateDir = << >> THEN {FALSE} ELSE BOOLEAN)
    /\ images = {}
    /\ sock = FALSE
    /\ pidfile = FALSE
    /\ procAlive = FALSE
    /\ qproc = NoProcess
    /\ monitorAttached = FALSE
    /\ ret = NoRet
    /\ pc = "idle"
    /\ call = NoCall
    /\ connOpen = 0
    /\ avail = FALSE
    /\ peerClosed = FALSE
    /\ expired = FALSE
    /\ reads = 0
    /\ sent = NoSent
    /\ inp = [op |-> "none"]

\* Argument synthesis: one Create on each configuration.
SynthInit == InitWith(SynthConfigs)
SynthNext == ret.op = "none" /\ Create
SynthSpec == SynthInit /\ [][SynthNext]_vars

----------------------------------------------------------------------------
(* Stop, Clean, Alive *)

\* The process manager is an external collaborator addressed by the state
\* directory alone (process.New(process.WithStateDir(...))): what it knows
\* of the process is its pid record, written by Run.

\* Stop(): the result of the process manager's Stop is returned as it is.
\* A recorded live process is signalled; what Stop gives without one
\* is decided by the process manager (either result is modelled).
Stop ==
    /\ pc = "idle"
    /\ \E ok \in BOOLEAN :
         /\ inp' = [op |-> "Stop", ok |-> ok]
         /\ ret' = [NoRet EXCEPT !.op = "Stop",
                                 !.err = IF ok THEN nil ELSE <<"stop">>]
         /\ procAlive' = IF pidfile /\ procAlive /\ ok THEN FALSE ELSE procAlive
    /\ UNCHANGED <<cfg, fsVars, qproc, monitorAttached, chanVars>>

\* Mutant: only the disk images are removed.
RemoveAll_ImagesOnly(fs) == [fs EXCEPT !.images = {}]

\* os.RemoveAll(StateDir) on the files [dirExists, images, sock, pidfile].
RemoveAll(fs) ==
    [dirExists |-> FALSE, images |-> {}, sock |-> FALSE, pidfile |-> FALSE]

\* Clean(): removes the state directory when one is configured. RemoveAll
\* can fail only on something that exists; the process is not touched.
Clean ==
    /\ pc = "idle"
    /\ \E ok \in (IF cfg.StateDir # << >> /\ dirExists THEN BOOLEAN ELSE {TRUE}) :
         /\ inp' = [op |-> "Clean", ok |-> ok]
         /\ IF cfg.StateDir # << >>
            THEN IF ok
                 THEN LET fs == RemoveAll([dirExists |-> dirExists, images |-> images,
                                           sock |-> sock, pidfile |-> pidfile])
                      IN  /\ dirExists' = fs.dirExists
                          /\ images' = fs.images
                          /\ sock' = fs.sock
                          /\ pidfile' = fs.pidfile
                          /\ ret' = [NoRet EXCEPT !.op = "Clean"]
                 ELSE /\ UNCHANGED fsVars
                      /\ ret' = [NoRet EXCEPT !.op = "Clean", !.err = <<"unlinkat">>]
            ELSE /\ UNCHANGED fsVars
                 /\ ret' = [NoRet EXCEPT !.op = "Clean"]
    /\ UNCHANGED <<cfg, procAlive, qproc, monitorAttached, chanVars>>

\* Mutant: Clean is called whatever Stop returned.
DestroyCleans_Always(stopErr) == TRUE

\* VM.Destroy goes on to Clean only when Stop returned no error.
DestroyCleans(stopErr) == stopErr = nil

\* VM.Destroy(additionalCleanup): the callback, then Stop and Clean of the
\* machine when the VM has one; the first error is returned. The callback
\* is the caller's code and is taken to leave the machine alone.
Destroy ==
    /\ pc = "idle"
    /\ \E hasMachine \in BOOLEAN :
       \E stopOK \in (IF hasMachine THEN BOOLEAN ELSE {TRUE}) :
         LET stopErr  == IF stopOK THEN nil ELSE <<"stop">>
             cleans   == hasMachine /\ DestroyCleans(stopErr)
             canFail  == cleans /\ cfg.StateDir # << >> /\ dirExists
         IN  \E cleanOK \in (IF canFail THEN BOOLEAN ELSE {TRUE}) :
               LET removes  == cleans /\ cfg.StateDir # << >> /\ cleanOK
                   cleanErr == IF cleanOK THEN nil ELSE <<"unlinkat">>
                   fs       == RemoveAll([dirExists |-> dirExists, images |-> images,
                                          sock |-> sock, pidfile |-> pidfile])
               IN  /\ inp' = [op |-> "Destroy", hasMachine |-> hasMachine,
                              stopOK |-> stopOK, cleanOK |-> cleanOK]
                   /\ procAlive' = IF hasMachine /\ pidfile /\ procAlive /\ stopOK
                                   THEN FALSE ELSE procAlive
                   /\ IF removes
                      THEN /\ dirExists' = fs.dirExists
                           /\ images' = fs.images
                           /\ sock' = fs.sock
                           /\ pidfile' = fs.pidfile
                      ELSE UNCHANGED fsVars
                   /\ ret' = [NoRet EXCEPT
                                !.op = "Destroy",
                                !.err = IF stopErr # nil THEN stopErr ELSE cleanErr,
                                !.calls = <<"additionalCleanup">>
                                          \o (IF hasMachine THEN <<"Stop">> ELSE << >>)
                                          \o (IF cleans THEN <<"Clean">> ELSE << >>)]
    /\ UNCHANGED <<cfg, qproc, monitorAttached, chanVars>>

\* IsAlive() of a handle made from the state directory: the process of the
\* pid record is running.
IsAlive == pidfile /\ procAlive

Alive ==
    /\ pc = "idle"
    /\ inp' = [op |-> "Alive"]
    /\ ret' = [NoRet EXCEPT !.op = "Alive", !.alive = IsAlive]
    /\ UNCHANGED <<cfg, fsVars, procAlive, qproc, monitorAttached, chanVars>>

----------------------------------------------------------------------------
(* Screenshot and DetachCD *)

TmpSuffixes == {7, 42}

\* The name os.CreateTemp("", "qemu-screenshot-*.png") gives for a random
\* suffix, and its length in bytes.
TmpName(sfx) == <<"/tmp/qemu-screenshot-", ToString(sfx), ".png">>
TmpNameLen(sfx) == TmpNameFixedLen + (IF sfx < 10 THEN 1 ELSE 2)

\* len(cmd) of the command line of a call.
CmdLen(op, sfx) ==
    IF op = "Screenshot" THEN ScreendumpVerbLen + TmpNameLen(sfx) + CRLFLen
    ELSE EjectCmdLen

\* The device that DetachCD ejects.
EjectDevice == <<"ide0-cd0">>

\* The command line of a call: "screendump <name>\r\n" or
\* "eject -f ide0-cd0\r\n".
CmdLine(op, sfx) ==
    IF op = "Screenshot" THEN [verb |-> "screendump", arg |-> TmpName(sfx)]
    ELSE [verb |-> "eject -f", arg |-> EjectDevice]

\* net.Dial gives the call one more open connection.
ConnDial(n) == n + 1

\* Mutant: the connection is left open.
ConnClose_Leak(n) == n

\* The deferred conn.Close() of a call.
ConnClose(n) == n - 1

\* Mutant: only an empty write counts as short.
ShortWrite_OnlyZero(n, cmdLen) == n = 0 /\ cmdLen > 0

\* n != len(cmd)
ShortWrite(n, cmdLen) == n # cmdLen

ShortWriteErr(n, cmdLen) ==
    <<"didn't send the full command (", ToString(n), " out of ",
      ToString(cmdLen), " bytes)">>

\* The byte counts tried for the write of a line of cmdLen bytes: nothing,
\* one byte, all but one, everything.
WriteCounts(cmdLen) == {0, 1, cmdLen - 1, cmdLen}

\* What the environment gives to one call: whether the dial succeeds, the
\* suffix of the temporary name (0: os.CreateTemp fails), the count and
\* error of the write, and whether SetReadDeadline succeeds. Inputs of
\* steps the call does not reach are left at their defaults.
MonitorInputs(op) ==
    LET sfxs == IF op = "Screenshot" THEN TmpSuffixes ELSE {1}
    IN  {[op |-> op, dialOK |-> FALSE, sfx |-> 0, n |-> 0, werr |-> FALSE, dlOK |-> FALSE]}
        \cup (IF op = "Screenshot"
              THEN {[op |-> op, dialOK |-> TRUE, sfx |-> 0, n |-> 0, werr |-> FALSE,
                     dlOK |-> FALSE]}
              ELSE {})
        \cup UNION {{[op |-> op, dialOK |-> TRUE, sfx |-> x, n |-> n, werr |-> w,
                       dlOK |-> FALSE] :
                         n \in WriteCounts(CmdLen(op, x)), w \in BOOLEAN} : x \in sfxs}
        \cup {[op |-> op, dialOK |-> TRUE, sfx |-> x, n |-> CmdLen(op, x), werr |-> FALSE,
               dlOK |-> TRUE] : x \in sfxs}

MonitorRet(op, err, name) == [NoRet EXCEPT !.op = op, !.err = err, !.name = name]

\* The body shared by Screenshot and DetachCD up to the drain loop. The
\* deferred conn.Close() runs on every return.
MonitorCall(op, in) ==
    LET cmdLen == CmdLen(op, in.sfx)
        cmd    == CmdLine(op, in.sfx)
        \* a return before the dial succeeded: no connection was opened
        failNoConn(err) == /\ ret' = MonitorRet(op, err, << >>)
                           /\ UNCHANGED chanVars
        \* a return after the dial: the deferred conn.Close() runs
        fail(err, line) == /\ ret' = MonitorRet(op, err, << >>)
                           /\ connOpen' = ConnClose(ConnDial(connOpen))
                           /\ sent' = line
                           /\ UNCHANGED <<pc, call, avail, peerClosed, expired, reads>>
        written == IF in.n = cmdLen THEN cmd ELSE sent
    IN  /\ in.n <= cmdLen
        /\ in.dialOK => (sock /\ procAlive)
        /\ inp' = in
        /\ IF ~in.dialOK THEN failNoConn(<<"dial">>)
           ELSE IF op = "Screenshot" /\ in.sfx = 0 THEN fail(<<"createtemp">>, sent)
           ELSE IF in.werr THEN fail(<<"write">>, written)
           ELSE IF ShortWrite(in.n, cmdLen) THEN fail(ShortWriteErr(in.n, cmdLen), written)
           ELSE IF ~in.dlOK THEN fail(<<"setdeadline">>, written)
           ELSE /\ pc' = "drain"
                /\ call' = [op |-> op,
                            name |-> IF op = "Screenshot" THEN TmpName(in.sfx) ELSE << >>]
                /\ connOpen' = ConnDial(connOpen)
                /\ sent' = written
                /\ avail' = FALSE
                /\ peerClosed' = FALSE
                /\ expired' = FALSE
                /\ reads' = 0
                /\ UNCHANGED ret

Screenshot ==
    /\ pc = "idle"
    /\ \E in \in MonitorInputs("Screenshot") : MonitorCall("Screenshot", in)
    /\ UNCHANGED <<cfg, fsVars, procAlive, qproc, monitorAttached>>

DetachCD ==
    /\ pc = "idle"
    /\ \E in \in MonitorInputs("DetachCD") : MonitorCall("DetachCD", in)
    /\ UNCHANGED <<cfg, fsVars, procAlive, qproc, monitorAttached>>

\* Mutant: only the end of the stream ends the drain.
DrainBreaks_OnlyEOF(err) == err = <<"EOF">>

\* The loop condition: any error of conn.Read ends the drain.
DrainBreaks(err) == err # nil

\* conn.Read returns data: the loop goes on. After the deadline a read
\* fails even when data is there.
DrainRead ==
    /\ pc = "drain"
    /\ avail /\ ~expired
    /\ ~DrainBreaks(nil)
    /\ avail' = FALSE
    /\ reads' = IF reads < MaxReads THEN reads + 1 ELSE reads
    /\ UNCHANGED <<cfg, fsVars, procAlive, qproc, monitorAttached, ret, pc, call,
                   connOpen, peerClosed, expired, sent, inp>>

\* The read error that ends the drain, if the connection gives one:
\* the deadline has passed, the peer closed with nothing left to read, or
\* another failure of the connection (other).
ReadErrors(other) ==
    (IF expired THEN {<<"i/o timeout">>} ELSE {})
    \cup (IF peerClosed /\ ~avail THEN {<<"EOF">>} ELSE {})
    \cup (IF other THEN {<<"read">>} ELSE {})

\* conn.Read fails with err: the loop ends and the call returns its
\* result without the error; the deferred Close runs.
DrainEnd(err) ==
    /\ pc = "drain"
    /\ DrainBreaks(err)
    /\ ret' = MonitorRet(call.op, nil, call.name)
    /\ pc' = "idle"
    /\ call' = NoCall
    /\ connOpen' = ConnClose(connOpen)
    /\ UNCHANGED <<cfg, fsVars, procAlive, qproc, monitorAttached, avail, peerClosed,
                   expired, reads, sent, inp>>

DrainTimeout == \E err \in ReadErrors(FALSE) \cap {<<"i/o timeout">>} : DrainEnd(err)
DrainClosed  == \E err \in ReadErrors(FALSE) \cap {<<"EOF">>} : DrainEnd(err)
DrainFailed  == \E err \in ReadErrors(TRUE) \cap {<<"read">>} : DrainEnd(err)

----------------------------------------------------------------------------
(* Environment *)

\* The read deadline (one second after SetReadDeadline) passes.
DeadlineExpires ==
    /\ pc = "drain" /\ ~expired
    /\ expired' = TRUE
    /\ UNCHANGED <<cfg, fsVars, procAlive, qproc, monitorAttached, ret, pc, call,
                   connOpen, avail, peerClosed, reads, sent, inp>>

\* The monitor writes to the connection.
PeerSend ==
    /\ pc = "drain" /\ ~peerClosed /\ ~avail
    /\ avail' = TRUE
    /\ UNCHANGED <<cfg, fsVars, procAlive, qproc, monitorAttached, ret, pc, call,
                   connOpen, peerClosed, expired, reads, sent, inp>>

\* The monitor closes the connection.
PeerClose ==
    /\ pc = "drain" /\ ~peerClosed
    /\ peerClosed' = TRUE
    /\ UNCHANGED <<cfg, fsVars, procAlive, qproc, monitorAttached, ret, pc, call,
                   connOpen, avail, expired, reads, sent, inp>>

\* The hypervisor creates its monitor socket (in the state directory, or in
\* its working directory when StateDir is empty) and listens on it.
QemuListen ==
    /\ procAlive /\ ~sock
    /\ dirExists \/ cfg.StateDir = << >>
    /\ sock' = TRUE
    /\ UNCHANGED <<cfg, dirExists, images, pidfile, procAlive, qproc, monitorAttached,
                   ret, chanVars, inp>>

\* The hypervisor process exits on its own.
QemuExit ==
    /\ procAlive
    /\ procAlive' = FALSE
    /\ peerClosed' = IF pc = "drain" THEN TRUE ELSE peerClosed
    /\ UNCHANGED <<cfg, fsVars, qproc, monitorAttached, ret, pc, call, connOpen, avail,
                   expired, reads, sent, inp>>

----------------------------------------------------------------------------
(* The machine's lifecycle *)

LifeConfigs ==
    {[BaseConfig EXCEPT !.StateDir = sd, !.AutoDriveSetup = auto, !.ISO = iso] :
        sd \in StateDirs, auto \in BOOLEAN, iso \in ISOs}

Init == InitWith(LifeConfigs)

Next ==
    \/ Create
    \/ Stop
    \/ Clean
    \/ Alive
    \/ Destroy
    \/ Screenshot
    \/ DetachCD
    \/ DrainRead
    \/ DrainTimeout
    \/ DrainClosed
    \/ DrainFailed
    \/ DeadlineExpires
    \/ PeerSend
    \/ PeerClose
    \/ QemuListen
    \/ QemuExit

Spec == Init /\ [][Next]_vars

\* Time passes, and a read that is due to fail on the deadline returns.
LiveSpec == Spec /\ WF_vars(DeadlineExpires) /\ WF_vars(DrainTimeout)

----------------------------------------------------------------------------
(* Reading the argument list that Create handed to the process launcher *)

Args == qproc.args

\* The last Create reached the launch (it passed provisioning and binary
\* resolution, built the process handle and called Run).
Launched == ret.op = "Create" /\ ret.ctx = "newCtx"

KindIdx(k)  == {i \in 1..Len(Args) : Args[i].t = k}
BlkIdx      == KindIdx("virtio-blk-pci")
CdIdx       == KindIdx("scsi-cd")
CtrlIdx     == KindIdx("virtio-scsi-pci")
DriveIdx    == KindIdx("drive")
StorageIdx  == BlkIdx \cup CdIdx \cup CtrlIdx \cup DriveIdx

\* The scsi-cd devices whose drive is backed by the given file.
CdOf(file) ==
    {c \in CdIdx : \E d \in DriveIdx :
        Args[d].id = Args[c].drive /\ Args[d].file = file /\ Args[d].media = "cdrom"}

NoMedia == cfg.ISO = << >> /\ cfg.DataSource = << >>

AutoProvisions == cfg.AutoDriveSetup /\ Len(cfg.Drives) = 0

\* The sizes auto-provisioning is configured with.
WantedSizes == IF cfg.DriveSizes = << >> THEN <<DefaultDriveSize>> ELSE cfg.DriveSizes

\* The image path <state dir>/<id>-<n>.img.
WantedImage(n) == cfg.StateDir \o <<"/">> \o cfg.ID \o <<"-", ToString(n), ".img">>

\* The persistent drives of the launched machine, in order.
PersistentDrives ==
    IF AutoProvisions
    THEN [i \in 1..Len(WantedSizes) |-> WantedImage(i - 1)]
    ELSE cfg.Drives

\* The i-th element of a set of indexes, in ascending order.
Nth(S, i) == CHOOSE x \in S : Cardinality({y \in S : y < x}) = i - 1

----------------------------------------------------------------------------
(* C1 *)

\* C1: the bootindex values of the launched devices are pairwise distinct,
\* every persistent drive's bootindex is smaller than the primary medium's,
\* and the primary medium's is smaller than the secondary medium's.
C1_BootIndexUniqueOrdered ==
    Launched =>
        /\ \A i, j \in BlkIdx \cup CdIdx :
              i # j => Args[i].bootindex # Args[j].bootindex
        /\ \A b \in BlkIdx : \A c \in CdOf(cfg.ISO) :
              Args[b].bootindex < Args[c].bootindex
        /\ \A c \in CdOf(cfg.ISO) : \A e \in CdOf(cfg.DataSource) :
              Args[c].bootindex < Args[e].bootindex

----------------------------------------------------------------------------
(* C2 *)

\* C2: with N persistent drives and no removable media, the launched list
\* holds exactly N -drive/-device pairs, the i-th for the i-th drive path
\* with bootindex i, and no virtio-scsi controller.
C2_DrivePairsInOrder ==
    (Launched /\ NoMedia) =>
        LET N == Len(PersistentDrives)
        IN  /\ Cardinality(DriveIdx) = N
            /\ Cardinality(BlkIdx) = N
            /\ CtrlIdx = {} /\ CdIdx = {}
            /\ \A i \in 1..N :
                 LET d == Nth(DriveIdx, i)
                 IN  /\ Args[d].file = PersistentDrives[i]
                     /\ Args[d].media = ""
                     /\ d > 1 /\ Args[d - 1] = Flag("-drive")
                     /\ d + 2 <= Len(Args)
                     /\ Args[d + 1] = Flag("-device")
                     /\ Args[d + 2].t = "virtio-blk-pci"
                     /\ Args[d + 2].drive = Args[d].id
                     /\ Args[d + 2].bootindex = i

C2_Witness == Launched /\ NoMedia /\ Len(PersistentDrives) = 2 /\ Cardinality(BlkIdx) = 2

----------------------------------------------------------------------------
(* C3 *)

\* C3: the virtio-scsi controller is emitted exactly once when an ISO or a
\* data source is configured, never otherwise, and before every scsi-cd
\* device on its bus.
C3_OneControllerFirst ==
    Launched =>
        /\ Cardinality(CtrlIdx) = (IF NoMedia THEN 0 ELSE 1)
        /\ \A c \in CdIdx :
              /\ Args[c].bus = "scsi0.0"
              /\ \E k \in CtrlIdx : k < c /\ Args[k].id = "scsi0"
        /\ \A k \in CtrlIdx : k > 1 /\ Args[k - 1] = Flag("-device")

C3_Witness ==
    /\ Launched /\ cfg.ISO # << >> /\ cfg.DataSource # << >>
    /\ Cardinality(CdIdx) = 2 /\ Cardinality(CtrlIdx) = 1

----------------------------------------------------------------------------
(* C4 *)

\* C4: a launch with auto-provisioning and no explicit drives has created
\* exactly the images <state dir>/<id>-<i>.img (i from 0) with size
\* <size>M, one per configured size or one of the default size, and they
\* are the persistent drives in that order; otherwise no image exists.
C4_AutoProvisioning ==
    /\ (Launched /\ AutoProvisions) =>
          /\ images = {[path |-> WantedImage(i - 1), size |-> WantedSizes[i] \o <<"M">>] :
                          i \in 1..Len(WantedSizes)}
          /\ Cardinality(images) = Len(WantedSizes)
          /\ Cardinality(BlkIdx) = Len(WantedSizes)
          /\ \A i \in 1..Len(WantedSizes) :
                Args[Nth(DriveIdx, i)].file = WantedImage(i - 1)
    /\ ~AutoProvisions => images = {}

C4_Witness ==
    /\ Launched /\ AutoProvisions /\ Len(cfg.DriveSizes) = 2
    /\ Cardinality(images) = 2

----------------------------------------------------------------------------
(* C5 *)

BootFlag  == Flag("-boot")
BootValue == Flag("order=dc,menu=on")

\* C5 as stated: the drive and media tokens come before the other launch
\* arguments and the boot-order directive is the last entry of the list.
C5_BootOrderLast ==
    Launched =>
        /\ Len(Args) >= 2
        /\ Args[Len(Args) - 1] = BootFlag
        /\ Args[Len(Args)] = BootValue
        /\ \A i \in StorageIdx : \A j \in KindIdx("unix") \cup KindIdx("cores") : i < j

\* C5 (amended): the list is the option tokens, whose last two entries are
\* the boot-order directive, followed by the drive and media tokens; the
\* directive ends the whole list only when no drive or medium is launched.
C5_OptionsThenDrives ==
    Launched =>
        \E k \in 1..(Len(Args) - 1) :
            /\ Args[k] = BootFlag /\ Args[k + 1] = BootValue
            /\ \A i \in StorageIdx : i > k + 1
            /\ \A i \in (k + 2)..Len(Args) :
                  i \in StorageIdx \/ Args[i] \in {Flag("-drive"), Flag("-device")}
            /\ \A j \in KindIdx("unix") \cup KindIdx("cores") : j < k
            /\ (k + 1 = Len(Args)) <=> (PersistentDrives = << >> /\ NoMedia)

C5_Witness ==
    /\ Launched /\ Len(PersistentDrives) = 1 /\ cfg.ISO # << >>
    /\ Args[Len(Args)].t = "scsi-cd"
    /\ \E k \in 1..(Len(Args) - 1) : Args[k] = BootFlag /\ k + 1 < Len(Args)

----------------------------------------------------------------------------
(* C10 *)

\* The first disk creation the environment made fail (0: none).
FirstFail(o) ==
    IF \E i \in DOMAIN o : o[i] # "ok"
    THEN CHOOSE i \in DOMAIN o : o[i] # "ok" /\ \A j \in 1..(i - 1) : o[j] = "ok"
    ELSE 0

BinaryMissing(in) ==
    cfg.Process = << >> /\ in.present = {} /\ in.lookPath = << >>

ImageAt(imgs, n) == {im \in imgs : im.path = WantedImage(n)}

\* C10: a Create whose disk provisioning fails, or that cannot resolve the
\* hypervisor binary, returns an error with the caller's context, launches
\* no process, builds no handle, attaches no monitor, and creates no disk
\* from the failing one on.
C10_FailFast ==
    [][ (inp'.op = "Create" /\ (FirstFail(inp'.outcome) > 0 \/ BinaryMissing(inp')))
        => /\ ret'.op = "Create" /\ ret'.err # nil /\ ret'.ctx = "ctx"
           /\ procAlive' = FALSE /\ pidfile' = pidfile
           /\ qproc' = qproc /\ monitorAttached' = monitorAttached
           /\ LET k == FirstFail(inp'.outcome)
              IN  k > 0 =>
                    /\ IsPrefix(<<"creating disk with size ">>, ret'.err)
                    /\ \A n \in (k - 1)..(Len(WantedSizes) - 1) :
                          ImageAt(images', n) = ImageAt(images, n)
                    /\ \A n \in 0..(k - 2) : ImageAt(images', n) # {}
      ]_vars

C10_Witness ==
    /\ ret.op = "Create" /\ ret.ctx = "ctx" /\ inp.op = "Create"
    /\ FirstFail(inp.outcome) = 2
    /\ Cardinality(images) = 1 /\ ~qproc.set /\ ~monitorAttached

C10_WitnessBinary ==
    /\ ret.op = "Create" /\ ret.ctx = "ctx" /\ inp.op = "Create"
    /\ BinaryMissing(inp) /\ FirstFail(inp.outcome) = 0
    /\ ~qproc.set /\ ~monitorAttached

----------------------------------------------------------------------------
(* C6 *)

MonitorOps == {"Screenshot", "DetachCD"}

\* The call reached its write of the command line.
ReachedWrite(in) ==
    in.op \in MonitorOps /\ in.dialOK /\ (in.op = "Screenshot" => in.sfx # 0)

WroteShort(in) == ReachedWrite(in) /\ in.n < CmdLen(in.op, in.sfx)

ReportsCounts(err, in) ==
    /\ Len(err) = 5
    /\ err[2] = ToString(in.n)
    /\ err[4] = ToString(CmdLen(in.op, in.sfx))

\* C6 as stated: a call whose write transfers fewer bytes than the line has
\* fails with an error that reports the written and the intended count,
\* does not enter the drain loop, and returns no file name.
C6_ShortWriteReportsCounts ==
    [][ WroteShort(inp')
        => /\ ret'.op = inp'.op /\ ReportsCounts(ret'.err, inp')
           /\ pc' = "idle" /\ ret'.name = << >>
      ]_vars

\* C6 (amended): a short write fails the call without entering the drain
\* loop and without a file name; the error reports both counts when the
\* write itself returned no error, and is the write's own error otherwise.
C6_ShortWriteFails ==
    [][ WroteShort(inp')
        => /\ ret'.op = inp'.op /\ ret'.err # nil
           /\ pc' = "idle" /\ ret'.name = << >> /\ connOpen' = connOpen
           /\ IF inp'.werr THEN ret'.err = <<"write">>
                           ELSE ReportsCounts(ret'.err, inp')
      ]_vars

C6_Witness ==
    /\ inp.op = "DetachCD" /\ WroteShort(inp) /\ ~inp.werr /\ inp.n = EjectCmdLen - 1
    /\ ret.op = "DetachCD" /\ ReportsCounts(ret.err, inp) /\ pc = "idle"

----------------------------------------------------------------------------
(* C7 *)

\* The whole command line was written without error.
FullyWritten(in) ==
    ReachedWrite(in) /\ ~in.werr /\ in.n = CmdLen(in.op, in.sfx)

\* C7 as stated: a call that has fully written its command line returns
\* success.
C7_WrittenThenSuccess ==
    (pc = "idle" /\ FullyWritten(inp) /\ ret.op = inp.op) => ret.err = nil

\* C7 (amended): a call that has fully written its command line and set the
\* read deadline drains, always returns, and returns success with its file
\* name: the drain ends on the first read error and drops it.
C7_DrainReturnsSuccess ==
    /\ (pc = "drain") ~> (pc = "idle")
    /\ [][ (pc = "drain" /\ pc' = "idle")
           => /\ ret'.op = call.op /\ ret'.err = nil /\ ret'.name = call.name
              /\ (call.op = "Screenshot") => (ret'.name = TmpName(inp.sfx))
         ]_vars
    /\ []( (FullyWritten(inp) /\ inp.dlOK)
           => \/ pc = "drain" /\ call.op = inp.op
              \/ pc = "idle" /\ ret.op = inp.op /\ ret.err = nil )

C7_Witness ==
    /\ pc = "idle" /\ ret.op = "Screenshot" /\ ret.err = nil /\ ret.name # << >>
    /\ FullyWritten(inp) /\ inp.dlOK
    /\ expired /\ ~peerClosed /\ reads = MaxReads

----------------------------------------------------------------------------
(* C9 *)

\* Nothing of the machine's state is left on disk.
StateDirGone == ~dirExists /\ images = {} /\ ~sock /\ ~pidfile

CleanSucceeded == ret.op = "Clean" /\ ret.err = nil

\* C9 as stated: after a successful Clean the state directory is gone, and
\* an Alive check that follows reports not-alive.
C9_CleanRemovesStateDir ==
    /\ [](CleanSucceeded => StateDirGone)
    /\ [][ (CleanSucceeded /\ inp'.op = "Alive") => ~ret'.alive ]_vars

\* C9 (amended): when a state directory is configured, after a successful
\* Clean the state directory is gone, and every Alive check made while it
\* is gone reports not-alive, whether the machine was never started, is
\* running or was stopped.
C9_CleanThenNotAlive ==
    /\ []((CleanSucceeded /\ cfg.StateDir # << >>) => StateDirGone)
    /\ [][ (cfg.StateDir # << >> /\ StateDirGone /\ inp'.op = "Alive")
           => ~ret'.alive ]_vars

C9_Witness ==
    /\ cfg.StateDir # << >> /\ StateDirGone /\ procAlive
    /\ ret.op = "Alive" /\ ~ret.alive /\ qproc.set

----------------------------------------------------------------------------
(* C13 *)

DestroyOrder == <<"additionalCleanup", "Stop", "Clean">>

\* C13: Destroy makes its calls in the order additional cleanup, Stop,
\* Clean, starting with the additional cleanup; Clean is called only after
\* Stop returned without error; when Stop fails nothing of the state
\* directory is touched and Destroy returns the error of Stop.
C13_DestroyOrder ==
    [][ Destroy =>
          /\ ret'.op = "Destroy"
          /\ ret'.calls # << >>
          /\ ret'.calls[1] = "additionalCleanup"
          /\ IsPrefix(ret'.calls, DestroyOrder)
          /\ Len(ret'.calls) = 3 => inp'.stopOK
          /\ (inp'.hasMachine /\ ~inp'.stopOK)
                => /\ UNCHANGED fsVars
                   /\ ret'.err = <<"stop">>
                   /\ ret'.calls = <<"additionalCleanup", "Stop">> ]_vars

\* Destroy of a launched machine with files in its state directory has
\* returned the error of a failed Stop.
C13_Witness ==
    /\ ret.op = "Destroy" /\ inp.op = "Destroy" /\ inp.hasMachine /\ ~inp.stopOK
    /\ ret.err = <<"stop">> /\ ret.calls = <<"additionalCleanup", "Stop">>
    /\ cfg.StateDir # << >> /\ dirExists /\ pidfile /\ qproc.set

----------------------------------------------------------------------------
(* C11 *)

\* A monitor call has returned after it had dialled.
ReturnedAfterDial == pc = "idle" /\ ret.op \in MonitorOps /\ ret.op = inp.op /\ inp.dialOK

\* C11: a Screenshot or DetachCD call holds at most one connection to the
\* monitor, it holds it only while the call is running, and once the call
\* has returned, on whichever path, no connection it opened is still open.
C11_NoConnectionLeft ==
    /\ connOpen \in {0, 1}
    /\ pc = "idle" => connOpen = 0
    /\ pc = "drain" => connOpen = 1

\* A call that dialled and then failed on SetReadDeadline has returned.
C11_Witness ==
    /\ ReturnedAfterDial /\ ret.err = <<"setdeadline">> /\ connOpen = 0

----------------------------------------------------------------------------
(* C12 *)

\* The identifiers under which the launched machine declares the
\* removable-media drive backed by the given file: the id of its -drive and,
\* through drive=, of the scsi-cd device on it (the device has no id of its
\* own).
DeclaredCdIds(file) ==
    {Args[d].id : d \in {x \in DriveIdx : /\ Args[x].file = file
                                          /\ Args[x].media = "cdrom"
                                          /\ \E c \in CdOf(file) : Args[c].drive = Args[x].id}}

\* DetachCD has written its whole command to the monitor of a machine
\* launched with a primary ISO.
EjectSent == sent.verb = "eject -f" /\ qproc.set /\ cfg.ISO # << >>

\* C12: the device the eject command of DetachCD names is one that the
\* launch declares for the primary ISO.
C12_EjectNamesDeclaredCD ==
    EjectSent => sent.arg \in DeclaredCdIds(cfg.ISO)

====
